---- MODULE Spec2Model ----
(***************************************************************************)
(* Model of the retrieval-augmented QA core of chatwithpdf:                *)
(* EnhancedLangChainAgent (services/enhanced_langchain_agent.py) with the  *)
(* Chroma vector store, the in-memory document_cache, the provider         *)
(* selection of _initialize_llm and the LLM wrappers.                      *)
(*                                                                         *)
(* Abstractions.                                                           *)
(*  - A text block is a sequence of units; each unit stands for one        *)
(*    splitter-sized piece of text, so RecursiveCharacterTextSplitter      *)
(*    yields one chunk per unit and no chunk for an empty block.           *)
(*  - The routes of routes/api.py that the properties need are modelled    *)
(*    as one step each, with the agent and session_service calls they      *)
(*    make; a response is its HTTP status and the fields of its body.      *)
(*  - chunk_text works on strings of characters; the model keeps the       *)
(*    characters.                                                          *)
(*  - Python's hash() of a string is modelled collision-free: a positional *)
(*    encoding of the joined text.                                         *)
(*  - Chroma generates a fresh uuid for every inserted entry; the model    *)
(*    takes the least natural that is neither stored nor still referenced  *)
(*    by a caller.                                                         *)
(*  - The agent has no lock: callers interleave at the granularity of the  *)
(*    calls they make on the shared vector store and cache.                *)
(***************************************************************************)
EXTENDS Integers, Sequences, FiniteSets, TLC

\* ------------------------------------------------------------------ bounds
\* capacity of the vector store in the model (number of stored entries)
MaxChunks == 3

\* number of pieces an input text of chunk_text is put together from
MaxPieces == 5

\* rows the table chat_messages can hold in the model
MaxMessages == 3

\* ------------------------------------------------------------- input sets
Threads == {"t1", "t2"}
Docs == {"d1", "d2"}
NoDoc == "none"

\* texts arguments of add_documents: lists of text blocks
TextA == << <<1>> >>
TextB == << <<2>> >>
TextBC == << <<2, 3>> >>
TextBlank == << <<>> >>
TextsInputs == {TextA, TextBC, TextBlank}

Providers == {"gemini", "mistral", "ollama"}

\* provider names passed to switch_llm_provider; "openai" is not a known one
SwitchInputs == Providers \cup {"auto", "openai"}

\* what happens at the language-model backend during one call
BackendConds ==
  {"ok", "network_error", "http_error", "timeout", "empty_output",
   "safety_block", "unavailable"}

Queries == {"q1", "q2"}

\* extensions that DocumentProcessor has an extractor for
SupportedFormats ==
  {".pdf", ".docx", ".doc", ".pptx", ".ppt", ".xlsx", ".xls", ".txt", ".rtf",
   ".md", ".csv"}

\* names of uploaded files
Filenames ==
  {[stem |-> "report", ext |-> ".pdf"], [stem |-> "REPORT", ext |-> ".PDF"],
   [stem |-> "setup", ext |-> ".exe"], [stem |-> "notes", ext |-> ""]}

\* texts an extractor returns: nothing, whitespace only, content
UploadTexts == {<<>>, <<0>>, <<0, 0>>, <<1>>, <<2, 3>>}

\* k of the search that get_document_content runs
ContentK == 50

\* ids that uuid4 hands out to chat sessions
SessionIds == {"s1", "s2"}

\* k of search_documents: the default 5 and a small one
SearchKs == {1, 5}

\* ----------------------------------------------------------- pure helpers
\* ''.join(texts)
RECURSIVE Join(_)
Join(texts) ==
  IF texts = <<>> THEN <<>> ELSE Head(texts) \o Join(Tail(texts))

\* hash(s) of the joined string, collision-free over the modelled texts
RECURSIVE Hash(_)
Hash(s) ==
  IF s = <<>> THEN 0 ELSE Hash(SubSeq(s, 1, Len(s) - 1)) * 4 + s[Len(s)]

\* str(hash(''.join(texts)))
ContentHash(texts) == Hash(Join(texts))

\* f"{doc_id}_{hash(''.join(texts))}"
CacheKey(texts, doc_id) == <<doc_id, Hash(Join(texts))>>

\* unit 0 stands for whitespace, every other unit for a piece of content
IsContent(u) == u # 0

\* self.text_splitter.split_text(text): one chunk per content unit of the
\* block; whitespace is stripped and yields no chunk
SplitText(text) == SelectSeq(text, IsContent)

\* the metadata built for chunk j of text i (0-based indices as in enumerate)
ChunkMeta(doc_id, i, j, chunk, new_content_hash) ==
  [doc |-> doc_id, ti |-> i, ci |-> j, hash |-> new_content_hash, text |-> chunk]

\* documents list built by the nested loops of add_documents, in order
RECURSIVE BuildFrom(_, _, _, _)
BuildFrom(texts, doc_id, i, j) ==
  IF i > Len(texts) THEN <<>>
  ELSE IF j > Len(SplitText(texts[i])) THEN BuildFrom(texts, doc_id, i + 1, 1)
  ELSE <<ChunkMeta(doc_id, i - 1, j - 1, SplitText(texts[i])[j], ContentHash(texts))>>
       \o BuildFrom(texts, doc_id, i, j + 1)

BuildDocuments(texts, doc_id) == BuildFrom(texts, doc_id, 1, 1)

\* f"{doc_id}_{i}_{j}"
ChunkId(c) == <<c.doc, c.ti, c.ci>>

\* ------------------------------------------------------- vector store ops
\* vectorstore.get(where={"doc_id": doc_id})
StoreGet(idx, doc_id) == {c \in idx : c.doc = doc_id}

\* vectorstore.delete(ids=ids): unknown ids are ignored
StoreDelete(idx, ids) == {c \in idx : c.uid \notin ids}

Uids(cs) == {c.uid : c \in cs}

\* a fresh uuid: the least natural not in used
FreshUid(used) ==
  CHOOSE u \in 1..(Cardinality(used) + 1) :
    u \notin used /\ \A v \in 1..(u - 1) : v \in used

\* vectorstore.add_documents(documents): one entry with a fresh id per document
RECURSIVE StoreAdd(_, _, _)
StoreAdd(idx, documents, used) ==
  IF documents = <<>> THEN idx
  ELSE LET u == FreshUid(used)
           d == Head(documents)
           e == [uid |-> u, doc |-> d.doc, ti |-> d.ti, ci |-> d.ci,
                 hash |-> d.hash, text |-> d.text]
       IN StoreAdd(idx \cup {e}, Tail(documents), used \cup {u})

\* --------------------------------------------------------- provider choice
\* variant: auto mode asks mistral before gemini
InitializeLLMMistralFirst(llm_provider, gemini_ok, mistral_ok) ==
  LET p1 == IF llm_provider = "auto"
            THEN IF mistral_ok THEN "mistral"
                 ELSE IF gemini_ok THEN "gemini" ELSE "ollama"
            ELSE llm_provider
      p2 == IF p1 = "gemini" /\ ~gemini_ok
            THEN IF mistral_ok THEN "mistral" ELSE "ollama"
            ELSE p1
  IN IF p2 = "gemini" THEN "gemini"
     ELSE IF p2 = "mistral" /\ mistral_ok THEN "mistral"
     ELSE "ollama"

\* variant: an unavailable mistral falls back to gemini when that is available
InitializeLLMUpward(llm_provider, gemini_ok, mistral_ok) ==
  LET p1 == IF llm_provider = "auto"
            THEN IF gemini_ok THEN "gemini"
                 ELSE IF mistral_ok THEN "mistral" ELSE "ollama"
            ELSE llm_provider
      p2 == IF p1 = "gemini" /\ ~gemini_ok
            THEN IF mistral_ok THEN "mistral" ELSE "ollama"
            ELSE p1
  IN IF p2 = "gemini" THEN "gemini"
     ELSE IF p2 = "mistral" /\ mistral_ok THEN "mistral"
     ELSE IF p2 = "mistral" /\ gemini_ok THEN "gemini"
     ELSE "ollama"

\* variant: a name that is not a provider is resolved like "auto"
InitializeLLMUnknownAuto(llm_provider, gemini_ok, mistral_ok) ==
  LET p1 == IF llm_provider \notin {"gemini", "mistral", "ollama"}
            THEN IF gemini_ok THEN "gemini"
                 ELSE IF mistral_ok THEN "mistral" ELSE "ollama"
            ELSE llm_provider
      p2 == IF p1 = "gemini" /\ ~gemini_ok
            THEN IF mistral_ok THEN "mistral" ELSE "ollama"
            ELSE p1
  IN IF p2 = "gemini" THEN "gemini"
     ELSE IF p2 = "mistral" /\ mistral_ok THEN "mistral"
     ELSE "ollama"

\* EnhancedLangChainAgent._initialize_llm: the provider whose backend is
\* returned and whose name is stored in self.llm_provider
InitializeLLM(llm_provider, gemini_ok, mistral_ok) ==
  LET p1 == IF llm_provider = "auto"
            THEN IF gemini_ok THEN "gemini"
                 ELSE IF mistral_ok THEN "mistral" ELSE "ollama"
            ELSE llm_provider
      p2 == IF p1 = "gemini" /\ ~gemini_ok
            THEN IF mistral_ok THEN "mistral" ELSE "ollama"
            ELSE p1
  IN IF p2 = "gemini" THEN "gemini"
     ELSE IF p2 = "mistral" /\ mistral_ok THEN "mistral"
     ELSE "ollama"

\* ------------------------------------------------------- similarity search
\* similarity of a stored text to the query under the embedding
Score(query, text) == IF query = "q1" THEN text ELSE 0 - text

\* c ranks before d for the query; equal scores keep insertion order
Better(query, c, d) ==
  \/ Score(query, c.text) > Score(query, d.text)
  \/ Score(query, c.text) = Score(query, d.text) /\ c.uid < d.uid

\* the k most similar of cands, best first
RECURSIVE TopK(_, _, _)
TopK(cands, query, k) ==
  IF k = 0 \/ cands = {} THEN <<>>
  ELSE LET best == CHOOSE c \in cands :
                     \A d \in cands \ {c} : Better(query, c, d)
       IN <<best>> \o TopK(cands \ {best}, query, k - 1)

\* variant: a filter that matches nothing falls back to the whole collection
RetrieveFallback(idx, query, doc_id, k) ==
  TopK(IF doc_id = NoDoc \/ StoreGet(idx, doc_id) = {}
       THEN idx ELSE StoreGet(idx, doc_id), query, k)

\* retriever.invoke(query) with search_kwargs k and an optional doc_id filter
Retrieve(idx, query, doc_id, k) ==
  TopK(IF doc_id = NoDoc THEN idx ELSE StoreGet(idx, doc_id), query, k)

\* the metadata dictionary of a stored chunk
Meta(c) == [doc_id |-> c.doc, text_index |-> c.ti, chunk_index |-> c.ci,
            content_hash |-> c.hash]

\* search_documents lines 418-426: the result list
SearchResults(docs) ==
  [i \in 1..Len(docs) |->
     [content |-> docs[i].text, metadata |-> Meta(docs[i]), rank |-> i]]

\* ------------------------------------------------------------ LLM backends
\* MistralLLM._call, GeminiLLM._call and OllamaLLM: what the chain gets back.
\* The two API wrappers turn every failure into a returned message; the
\* Ollama client raises when the local service cannot be reached.
LLMCall(backend, cond) ==
  IF cond = "ok" THEN [raised |-> FALSE, text |-> "answer"]
  ELSE IF backend \in {"gemini", "mistral"}
       THEN [raised |-> FALSE, text |-> "error_message"]
  ELSE IF cond = "empty_output" THEN [raised |-> FALSE, text |-> "empty"]
  ELSE IF cond = "safety_block" THEN [raised |-> FALSE, text |-> "refusal"]
  ELSE [raised |-> TRUE, text |-> "none"]

\* _setup_qa_chain lines 171-204: the template chosen for a provider name
PromptFor(provider) ==
  IF provider = "gemini" THEN "gemini"
  ELSE IF provider = "mistral" THEN "mistral" ELSE "ollama"

\* the characters of the chunk that a content unit stands for: short chunks
\* with and without line breaks, a chunk of exactly PreviewLen characters and
\* one with a line break on either side of that length
Repeat(c, n) == [i \in 1..n |-> c]

\* source.page_content[:200]: the length of the preview
PreviewLen == 200

PageContent(u) ==
  IF u = 0 THEN <<" ">>
  ELSE IF u = 1 THEN <<"a">>
  ELSE IF u = 2 THEN <<"b", "\n", "c">>
  ELSE IF u = 3 THEN <<"c", "\n", "\n">>
  ELSE IF u = 4 THEN Repeat("x", PreviewLen)
  ELSE Repeat("x", PreviewLen - 1) \o <<"\n", "\n", "y">>

\* str.replace(old, new) for a one-character old
ReplaceChar(s, old, new) ==
  [i \in 1..Len(s) |-> IF s[i] = old THEN new ELSE s[i]]

\* variant: the preview keeps the line breaks of the chunk
ContentPreviewRaw(page_content) ==
  SubSeq(page_content, 1,
         IF Len(page_content) < PreviewLen THEN Len(page_content)
         ELSE PreviewLen)
  \o <<".", ".", ".">>

\* line 344: source.page_content[:200].replace('\n', ' ') + "..."
ContentPreview(page_content) ==
  ReplaceChar(SubSeq(page_content, 1,
                     IF Len(page_content) < PreviewLen THEN Len(page_content)
                     ELSE PreviewLen), "\n", " ")
  \o <<".", ".", ".">>

ResponseKeys ==
  {"answer", "source_count", "sources", "search_successful", "llm_provider"}

\* variant: a backend message other than an answer is flagged as a failure
\* while the sources are still attached
AskSuccessResponseFlagged(answer, sources, provider) ==
  [answer |-> answer,
   source_count |-> Len(sources),
   sources |-> [i \in 1..(IF Len(sources) < 3 THEN Len(sources) ELSE 3) |->
                  [chunk_index |-> i - 1,
                   content_preview |->
                     ContentPreview(PageContent(sources[i].text)),
                   metadata |-> Meta(sources[i])]],
   search_successful |-> answer = "answer",
   llm_provider |-> provider]

\* ask_question lines 331-348: the response of the success path
AskSuccessResponse(answer, sources, provider) ==
  [answer |-> answer,
   source_count |-> Len(sources),
   sources |-> [i \in 1..(IF Len(sources) < 3 THEN Len(sources) ELSE 3) |->
                  [chunk_index |-> i - 1,
                   content_preview |->
                     ContentPreview(PageContent(sources[i].text)),
                   metadata |-> Meta(sources[i])]],
   search_successful |-> TRUE,
   llm_provider |-> provider]

\* ask_question lines 350-359: the response of the except clause
AskErrorResponse(provider) ==
  [answer |-> "error_apology",
   source_count |-> 0,
   sources |-> <<>>,
   search_successful |-> FALSE,
   llm_provider |-> provider]

\* k of the retrievers built by ask_question and _setup_qa_chain
RetrieverK == 4

\* ------------------------------------------------------------------ state
VARIABLES
  index,              \* contents of the Chroma collection "documents"
  document_cache,     \* self.document_cache: keys of processed documents
  llm_provider,       \* self.llm_provider
  llm,                \* self.llm: the provider of the backend object
  prompt,             \* self.PROMPT: the provider whose template is set
  qa_chain,           \* self.qa_chain: the backend and template it was built with
  gemini_available,   \* is_gemini_available()
  mistral_available,  \* is_mistral_available()
  thr,                \* per caller: position in its call and its locals
  recent,             \* the add_documents call that returned last and the
                      \* value it returned, if no other call has returned
                      \* since
  cleared,            \* clear_all_documents has returned true and no
                      \* ingestion has started since
  switched,           \* the last switch_llm_provider call, if it returned
                      \* true: the provider asked for and the one selected
  chat_sessions,      \* rows of the table chat_sessions in sessions.db
  chat_messages,      \* rows of the table chat_messages, in insertion order
  chunker             \* one application of chunk_text: arguments and result

vars == <<index, document_cache, llm_provider, llm, prompt, qa_chain,
          gemini_available, mistral_available, thr, recent, cleared,
          switched, chat_sessions, chat_messages, chunker>>

sideVars == <<chat_sessions, chat_messages, chunker>>

agentVars == <<llm_provider, llm, prompt, qa_chain>>
envVars == <<gemini_available, mistral_available>>

NoView == [n |-> 0, ids |-> {}, hashes |-> {}]

\* what the store holds for one document: count, chunk ids, fingerprints
View(idx, doc_id) ==
  [n |-> Cardinality(StoreGet(idx, doc_id)),
   ids |-> {<<c.ti, c.ci>> : c \in StoreGet(idx, doc_id)},
   hashes |-> {c.hash : c \in StoreGet(idx, doc_id)}]

\* what a successful ingestion of texts should leave for its doc_id
Expected(texts, doc_id) ==
  LET documents == BuildDocuments(texts, doc_id)
  IN [n |-> Len(documents),
      ids |-> {<<documents[k].ti, documents[k].ci>> : k \in 1..Len(documents)},
      hashes |-> {documents[k].hash : k \in 1..Len(documents)}]

Idle ==
  [pc |-> "idle", doc |-> NoDoc, texts |-> <<>>, existing |-> {},
   failed |-> FALSE, ret |-> FALSE, solo |-> FALSE, rival |-> FALSE,
   idem |-> FALSE, before |-> NoView, busy |-> {}, zero |-> FALSE,
   retrieved |-> <<>>, backend |-> "none", template |-> "none",
   cond |-> "none", answer |-> "none", req |-> "none", k |-> 0, out |-> <<>>,
   retry |-> FALSE, sid |-> "none", missing |-> FALSE, cause |-> "none",
   file |-> <<>>, current_provider |-> "none", reported |-> "none"]

NoRecent == <<>>

NoSwitch == [req |-> "none", out |-> "none"]

NoChunker == [fn |-> "none", text |-> <<>>, chunk_size |-> 0, overlap |-> 0,
              done |-> FALSE, raised |-> FALSE, chunks |-> <<>>]

AddPcs == {"add_get", "add_delete", "add_insert"}

\* a route of routes/api.py has produced its response
RouteDonePcs == {"upload_done", "content_done", "create_done", "detail_done",
                 "messages_done", "delete_done", "model_done", "sask_done",
                 "save_done"}

DonePcs == {"add_done", "clear_done", "search_done", "info_done",
            "ask_done", "switch_done"} \cup RouteDonePcs

\* ids a caller still holds from an earlier vectorstore.get
HeldUids == UNION {thr[t].existing : t \in Threads}

UsedUids == Uids(index) \cup HeldUids

OthersIdle(t) == \A u \in Threads \ {t} : thr[u].pc = "idle"

\* callers inside add_documents for the same doc_id with other texts
Rivals(t, doc_id, texts) ==
  {u \in Threads \ {t} :
     thr[u].pc \in AddPcs /\ thr[u].doc = doc_id /\ thr[u].texts # texts}

\* doc_ids whose chunks an add_documents call is replacing right now: it has
\* found chunks of another fingerprint and has not inserted the new ones yet
Replacing ==
  {d \in Docs : \E u \in Threads :
     /\ thr[u].pc \in {"add_delete", "add_insert"}
     /\ thr[u].doc = d
     /\ thr[u].existing # {}}

\* caller t enters a call with locals rec: callers already inside a call are
\* no longer alone, and those in rivals now overlap with t
Enter(t, rec, rivals) ==
  [u \in Threads |->
     IF u = t THEN rec
     ELSE IF thr[u].pc = "idle" THEN thr[u]
     ELSE [thr[u] EXCEPT !.solo = FALSE, !.rival = @ \/ u \in rivals]]

\* ---------------------------------------------------------- add_documents
\* lines 225-232: the cache check
AddStart(t, docs, inputs) ==
  /\ thr[t].pc = "idle"
  /\ \E doc_id \in docs, texts \in inputs :
       LET rec == [Idle EXCEPT
                     !.doc = doc_id, !.texts = texts,
                     !.solo = OthersIdle(t),
                     !.idem = recent = <<doc_id, texts, TRUE>>
                                /\ OthersIdle(t),
                     !.retry = recent = <<doc_id, texts, FALSE>>
                                 /\ OthersIdle(t),
                     !.before = View(index, doc_id)]
       IN IF CacheKey(texts, doc_id) \in document_cache
          THEN thr' = Enter(t, [rec EXCEPT !.pc = "add_done", !.ret = TRUE], {})
          ELSE thr' = Enter(t, [rec EXCEPT
                                  !.pc = "add_get",
                                  !.rival = Rivals(t, doc_id, texts) # {}],
                            Rivals(t, doc_id, texts))
  /\ cleared' = FALSE
  /\ UNCHANGED <<index, document_cache, agentVars, envVars, recent, switched,
                 sideVars>>

\* lines 235-246 and 249-250: look up the chunks of doc_id; an unchanged
\* fingerprint ends the call, a failing lookup is swallowed
AddGet(t) ==
  /\ thr[t].pc = "add_get"
  /\ LET existing_docs == StoreGet(index, thr[t].doc)
     IN \/ /\ thr' = [thr EXCEPT ![t].pc = "add_insert", ![t].failed = TRUE]
           /\ UNCHANGED document_cache
        \/ /\ existing_docs = {}
           /\ thr' = [thr EXCEPT ![t].pc = "add_insert"]
           /\ UNCHANGED document_cache
        \/ \E first \in existing_docs :
             IF first.hash = ContentHash(thr[t].texts)
             THEN /\ document_cache' =
                       document_cache \cup {CacheKey(thr[t].texts, thr[t].doc)}
                  /\ thr' = [thr EXCEPT ![t].pc = "add_done", ![t].ret = TRUE]
             ELSE /\ thr' = [thr EXCEPT ![t].pc = "add_delete",
                                        ![t].existing = Uids(existing_docs)]
                  /\ UNCHANGED document_cache
  /\ UNCHANGED <<index, agentVars, envVars, recent, cleared, switched,
                 sideVars>>

\* the superseded variant: every chunk of the collection is removed
AddDeleteAll(t) ==
  /\ thr[t].pc = "add_delete"
  /\ \/ /\ index' = {}
        /\ thr' = [thr EXCEPT ![t].pc = "add_insert"]
     \/ /\ index' = index
        /\ thr' = [thr EXCEPT ![t].pc = "add_insert", ![t].failed = TRUE]
  /\ UNCHANGED <<document_cache, agentVars, envVars, recent, cleared, switched,
                 sideVars>>

\* lines 247-250: delete the superseded chunks; a failing delete is swallowed
AddDelete(t) ==
  /\ thr[t].pc = "add_delete"
  /\ \/ /\ index' = StoreDelete(index, thr[t].existing)
        /\ thr' = [thr EXCEPT ![t].pc = "add_insert"]
     \/ /\ index' = index
        /\ thr' = [thr EXCEPT ![t].pc = "add_insert", ![t].failed = TRUE]
  /\ UNCHANGED <<document_cache, agentVars, envVars, recent, cleared, switched,
                 sideVars>>

\* lines 252-296: build the documents, insert them, record the cache key,
\* read the stored chunks back, return
AddInsert(t) ==
  /\ thr[t].pc = "add_insert"
  /\ LET documents == BuildDocuments(thr[t].texts, thr[t].doc)
     IN IF documents = <<>>
        THEN /\ thr' = [thr EXCEPT ![t].pc = "add_done", ![t].ret = TRUE,
                                   ![t].existing = {}]
             /\ UNCHANGED <<index, document_cache>>
        ELSE \/ \* vectorstore.add_documents raises
                /\ thr' = [thr EXCEPT ![t].pc = "add_done", ![t].ret = FALSE,
                                      ![t].failed = TRUE, ![t].existing = {}]
                /\ UNCHANGED <<index, document_cache>>
             \/ \* vectorstore.add_documents raises after it has stored the
                \* first n documents of the batch
                \E n \in 1..(Len(documents) - 1) :
                  /\ Cardinality(index) + n <= MaxChunks
                  /\ index' = StoreAdd(index, SubSeq(documents, 1, n), UsedUids)
                  /\ thr' = [thr EXCEPT ![t].pc = "add_done", ![t].ret = FALSE,
                                        ![t].failed = TRUE, ![t].existing = {}]
                  /\ UNCHANGED document_cache
             \/ \* stored and cached; the verification get succeeds or raises
                /\ Cardinality(index) + Len(documents) <= MaxChunks
                /\ index' = StoreAdd(index, documents, UsedUids)
                /\ document_cache' =
                     document_cache \cup {CacheKey(thr[t].texts, thr[t].doc)}
                /\ \/ thr' = [thr EXCEPT ![t].pc = "add_done", ![t].ret = TRUE,
                                         ![t].existing = {}]
                   \/ thr' = [thr EXCEPT ![t].pc = "add_done", ![t].ret = FALSE,
                                         ![t].failed = TRUE, ![t].existing = {}]
  /\ UNCHANGED <<agentVars, envVars, recent, cleared, switched,
                 sideVars>>

\* ----------------------------------------------------- clear_all_documents
\* lines 392-394 and 397-402: read all ids
ClearStart(t) ==
  /\ thr[t].pc = "idle"
  /\ \/ /\ thr' = Enter(t, [Idle EXCEPT !.pc = "clear_done", !.ret = FALSE,
                                        !.failed = TRUE], {})
        /\ UNCHANGED cleared
     \/ /\ index = {}
        /\ thr' = Enter(t, [Idle EXCEPT !.pc = "clear_done", !.ret = TRUE], {})
        /\ cleared' = TRUE
     \/ /\ index # {}
        /\ thr' = Enter(t, [Idle EXCEPT !.pc = "clear_delete",
                                        !.existing = Uids(index)], {})
        /\ UNCHANGED cleared
  /\ UNCHANGED <<index, document_cache, agentVars, envVars, recent, switched,
                 sideVars>>

\* variant: a failing delete is swallowed and the call returns true
ClearDeleteSwallow(t) ==
  /\ thr[t].pc = "clear_delete"
  /\ \/ index' = StoreDelete(index, thr[t].existing)
     \/ index' = index
  /\ thr' = [thr EXCEPT ![t].pc = "clear_done", ![t].ret = TRUE,
                        ![t].existing = {}]
  /\ cleared' = TRUE
  /\ UNCHANGED <<document_cache, agentVars, envVars, recent, switched,
                 sideVars>>

\* lines 395-402: delete them
ClearDelete(t) ==
  /\ thr[t].pc = "clear_delete"
  /\ \/ /\ index' = StoreDelete(index, thr[t].existing)
        /\ thr' = [thr EXCEPT ![t].pc = "clear_done", ![t].ret = TRUE,
                              ![t].existing = {}]
        /\ cleared' = TRUE
     \/ /\ index' = index
        /\ thr' = [thr EXCEPT ![t].pc = "clear_done", ![t].ret = FALSE,
                              ![t].failed = TRUE, ![t].existing = {}]
        /\ UNCHANGED cleared
  /\ UNCHANGED <<document_cache, agentVars, envVars, recent, switched,
                 sideVars>>

\* -------------------------------------------------------- search_documents
\* lines 404-430
Search(t, docs) ==
  /\ thr[t].pc = "idle"
  /\ \E query \in Queries, doc_id \in docs \cup {NoDoc}, k \in SearchKs :
       LET rec == [Idle EXCEPT !.pc = "search_done", !.doc = doc_id, !.k = k,
                               !.busy = Replacing]
       IN \/ thr' = Enter(t, [rec EXCEPT !.failed = TRUE, !.out = <<>>], {})
          \/ thr' = Enter(t, [rec EXCEPT
                 !.out = SearchResults(Retrieve(index, query, doc_id, k))], {})
  /\ UNCHANGED <<index, document_cache, agentVars, envVars, recent, cleared, switched,
                 sideVars>>

\* ----------------------------------------------------- get_collection_info
\* lines 361-388
GetCollectionInfo(t) ==
  /\ thr[t].pc = "idle"
  /\ LET rec == [Idle EXCEPT !.pc = "info_done", !.busy = Replacing]
         present == {c.doc : c \in index}
     IN \/ thr' = Enter(t, [rec EXCEPT !.failed = TRUE, !.out =
                 [total_chunks |-> 0, collection_exists |-> FALSE,
                  documents |-> [d \in {} |-> 0], status |-> "error",
                  llm_provider |-> llm_provider]], {})
        \/ thr' = Enter(t, [rec EXCEPT !.out =
                 [total_chunks |-> Cardinality(index),
                  collection_exists |-> TRUE,
                  documents |-> [d \in present |->
                                   Cardinality(StoreGet(index, d))],
                  status |-> "healthy",
                  llm_provider |-> llm_provider]], {})
  /\ UNCHANGED <<index, document_cache, agentVars, envVars, recent, cleared, switched,
                 sideVars>>

\* ------------------------------------------------------------ ask_question
\* lines 300-323: build the chain (a temporary one over self.llm and
\* self.PROMPT when doc_id is given, else self.qa_chain) and retrieve
AskRetrieve(t, docs) ==
  /\ thr[t].pc = "idle"
  /\ \E query \in Queries, doc_id \in docs \cup {NoDoc} :
       LET chain == IF doc_id = NoDoc THEN qa_chain
                    ELSE [llm |-> llm, prompt |-> prompt]
           rec == [Idle EXCEPT !.doc = doc_id, !.busy = Replacing,
                     !.zero = doc_id # NoDoc /\ StoreGet(index, doc_id) = {}]
       IN \/ \* the retriever raises
             thr' = Enter(t, [rec EXCEPT !.pc = "ask_done", !.failed = TRUE,
                                !.out = AskErrorResponse(llm_provider)], {})
          \/ thr' = Enter(t, [rec EXCEPT !.pc = "ask_llm",
                                !.retrieved =
                                   Retrieve(index, query, doc_id, RetrieverK),
                                !.backend = chain.llm,
                                !.template = chain.prompt], {})
  /\ UNCHANGED <<index, document_cache, agentVars, envVars, recent, cleared, switched,
                 sideVars>>

\* lines 321-323: the chain calls the backend with the stuffed prompt
AskGenerate(t) ==
  /\ thr[t].pc = "ask_llm"
  /\ \E cond \in BackendConds :
       LET r == LLMCall(thr[t].backend, cond)
       IN IF r.raised
          THEN thr' = [thr EXCEPT ![t].pc = "ask_done", ![t].cond = cond,
                                  ![t].failed = TRUE,
                                  ![t].out = AskErrorResponse(llm_provider)]
          ELSE thr' = [thr EXCEPT ![t].pc = "ask_respond", ![t].cond = cond,
                                  ![t].answer = r.text]
  /\ UNCHANGED <<index, document_cache, agentVars, envVars, recent, cleared, switched,
                 sideVars>>

\* lines 325-348: the response is built from the chain result
AskRespond(t) ==
  /\ thr[t].pc = "ask_respond"
  /\ thr' = [thr EXCEPT ![t].pc = "ask_done",
                        ![t].out = AskSuccessResponse(thr[t].answer,
                                     thr[t].retrieved, llm_provider)]
  /\ UNCHANGED <<index, document_cache, agentVars, envVars, recent, cleared, switched,
                 sideVars>>

\* ----------------------------------------------------- switch_llm_provider
\* variant: the switch replaces the backend and the template but keeps the
\* chain that was built for the previous provider
SwitchLLMProviderNoRebuild(t) ==
  /\ thr[t].pc = "idle"
  /\ \E provider \in SwitchInputs :
       LET selected == InitializeLLM(provider, gemini_available,
                                     mistral_available)
           rec == [Idle EXCEPT !.pc = "switch_done", !.req = provider,
                               !.out = selected]
       IN /\ llm_provider' = selected
          /\ llm' = selected
          /\ prompt' = PromptFor(selected)
          /\ UNCHANGED qa_chain
          /\ thr' = Enter(t, [rec EXCEPT !.ret = TRUE], {})
          /\ switched' = [req |-> provider, out |-> selected]
  /\ UNCHANGED <<index, document_cache, envVars, recent, cleared, sideVars>>

\* lines 432-442 with _initialize_llm and _setup_qa_chain; the name is stored
\* before the backend object is built, the template before the chain
SwitchLLMProvider(t) ==
  /\ thr[t].pc = "idle"
  /\ \E provider \in SwitchInputs :
       LET selected == InitializeLLM(provider, gemini_available,
                                     mistral_available)
           rec == [Idle EXCEPT !.pc = "switch_done", !.req = provider,
                               !.out = selected]
       IN /\ llm_provider' = selected
          /\ \/ \* building the backend object raises
                /\ UNCHANGED <<llm, prompt, qa_chain>>
                /\ thr' = Enter(t, [rec EXCEPT !.ret = FALSE,
                                               !.failed = TRUE], {})
                /\ switched' = NoSwitch
             \/ \* building the chain raises
                /\ llm' = selected
                /\ prompt' = PromptFor(selected)
                /\ UNCHANGED qa_chain
                /\ thr' = Enter(t, [rec EXCEPT !.ret = FALSE,
                                               !.failed = TRUE], {})
                /\ switched' = NoSwitch
             \/ /\ llm' = selected
                /\ prompt' = PromptFor(selected)
                /\ qa_chain' = [llm |-> selected, prompt |-> PromptFor(selected)]
                /\ thr' = Enter(t, [rec EXCEPT !.ret = TRUE], {})
                /\ switched' = [req |-> provider, out |-> selected]
  /\ UNCHANGED <<index, document_cache, envVars, recent, cleared, sideVars>>

\* ------------------------------------------------------- session_service
\* SELECT * FROM chat_sessions WHERE session_id = ?
HasSession(sid) == \E r \in chat_sessions : r.session_id = sid

SessionRow(sid) == CHOOSE r \in chat_sessions : r.session_id = sid

\* ids that no stored session and no stored message carries
UnusedSessionIds ==
  {sid \in SessionIds :
     /\ ~HasSession(sid)
     /\ \A i \in 1..Len(chat_messages) : chat_messages[i].session_id # sid}

\* str(uuid.uuid4()): an id that is not in use
FreshSessionId == CHOOSE sid \in UnusedSessionIds : TRUE

\* SessionService.create_session: the table after the INSERT
InsertSession(sid, document_id, model_provider) ==
  chat_sessions \cup {[session_id |-> sid, document_id |-> document_id,
                       model_provider |-> model_provider, message_count |-> 0]}

\* SessionService.save_message: the INSERT into chat_messages
InsertMessage(msgs, sid, message_type, content, model_used, context_sources) ==
  Append(msgs, [session_id |-> sid, message_type |-> message_type,
                content |-> content, model_used |-> model_used,
                context_sources |-> context_sources])

\* SessionService.save_message: the UPDATE of message_count
CountMessage(rows, sid) ==
  {IF r.session_id = sid THEN [r EXCEPT !.message_count = @ + 1] ELSE r :
     r \in rows}

\* SessionService.get_session_messages: the messages of a session, oldest first
SessionMessages(sid) == SelectSeq(chat_messages, LAMBDA m : m.session_id = sid)

\* SessionService.delete_session: both DELETE statements
DeleteSessionRows(sid) == {r \in chat_sessions : r.session_id # sid}

DeleteSessionMessages(sid) ==
  SelectSeq(chat_messages, LAMBDA m : m.session_id # sid)

\* SessionService.update_session_model: the UPDATE
SetSessionModel(sid, model_provider) ==
  {IF r.session_id = sid THEN [r EXCEPT !.model_provider = model_provider]
   ELSE r : r \in chat_sessions}

\* an HTTPException with a status code
HttpError(code) ==
  [status |-> code, answer |-> "none", context |-> <<>>, session_id |-> "none",
   doc_id |-> NoDoc, num_chunks |-> 0, messages |-> <<>>]

\* a response with status 200; the routes fill in the fields of their body
HttpOk == HttpError(200)

\* ------------------------------------------------------------ upload route
\* os.path.splitext(filename.lower())[1] of the modelled file names
LowerExt(ext) ==
  IF ext = ".PDF" THEN ".pdf" ELSE IF ext = ".Txt" THEN ".txt" ELSE ext

\* DocumentProcessor.is_supported
IsSupported(filename) == LowerExt(filename.ext) \in SupportedFormats

\* text.strip(): leading and trailing whitespace removed
RECURSIVE Strip(_)
Strip(text) ==
  IF text = <<>> THEN <<>>
  ELSE IF Head(text) = 0 THEN Strip(Tail(text))
  ELSE IF text[Len(text)] = 0 THEN Strip(SubSeq(text, 1, Len(text) - 1))
  ELSE text

\* variant: the text is tested without stripping it
IsBlankNoStrip(text) == text = <<>>

\* upload_document line 69: not text.strip()
IsBlank(text) == Strip(text) = <<>>

\* doc_ids that neither the collection nor the cache has seen
UnusedDocs ==
  {d \in Docs : StoreGet(index, d) = {} /\ \A key \in document_cache : key[1] # d}

\* generate_doc_id(): str(uuid.uuid4())
GenerateDocId == CHOOSE d \in UnusedDocs : TRUE

\* upload_document lines 21-101, with the add_documents and
\* get_collection_info calls it makes
UploadDocument(t) ==
  /\ thr[t].pc = "idle"
  /\ \E filename \in Filenames, extracted \in BOOLEAN, content \in UploadTexts :
       LET text == IF extracted THEN content ELSE <<>>
           rec == [Idle EXCEPT !.pc = "upload_done",
                     !.file = [name |-> filename, extracted |-> extracted,
                               text |-> text]]
           reject(why) ==
             /\ thr' = Enter(t, [rec EXCEPT !.cause = why,
                                            !.out = HttpError(400)], {})
             /\ UNCHANGED <<index, document_cache, cleared>>
       IN IF ~IsSupported(filename) THEN reject("unsupported")
          ELSE IF ~extracted THEN reject("extract_failed")
          ELSE IF IsBlank(text) THEN reject("blank")
          ELSE /\ UnusedDocs # {}
               /\ cleared' = FALSE
               /\ LET doc_id == GenerateDocId
                      documents == BuildDocuments(<<text>>, doc_id)
                      stored == StoreAdd(index, documents, UsedUids)
                      ok(num_chunks) ==
                        thr' = Enter(t, [rec EXCEPT !.doc = doc_id, !.ret = TRUE,
                                 !.out = [HttpOk EXCEPT !.doc_id = doc_id,
                                            !.num_chunks = num_chunks]], {})
                      failed ==
                        thr' = Enter(t, [rec EXCEPT !.doc = doc_id,
                                 !.failed = TRUE, !.cause = "store_failed",
                                 !.out = HttpError(500)], {})
                  IN IF documents = <<>>
                     THEN /\ UNCHANGED <<index, document_cache>>
                          /\ ok(0)
                     ELSE \/ \* vectorstore.add_documents raises
                             /\ UNCHANGED <<index, document_cache>>
                             /\ failed
                          \/ \* it raises after storing the first n documents
                             \E n \in 1..(Len(documents) - 1) :
                               /\ Cardinality(index) + n <= MaxChunks
                               /\ index' = StoreAdd(index,
                                              SubSeq(documents, 1, n), UsedUids)
                               /\ UNCHANGED document_cache
                               /\ failed
                          \/ \* stored and cached
                             /\ Cardinality(index) + Len(documents) <= MaxChunks
                             /\ index' = stored
                             /\ document_cache' =
                                  document_cache \cup {CacheKey(<<text>>, doc_id)}
                             /\ \/ failed  \* the verification get raises
                                \/ ok(Cardinality(StoreGet(stored, doc_id)))
                                \/ ok(0)   \* get_collection_info failed
  /\ UNCHANGED <<agentVars, envVars, recent, switched, sideVars>>

\* ------------------------------------------------- document content route
\* get_document_content lines 489-501: the chunks kept for the preview
RECURSIVE ContentParts(_, _)
ContentParts(results, seen_chunks) ==
  IF results = <<>> THEN <<>>
  ELSE LET doc == Head(results)
           chunk_id == doc.metadata.chunk_index
       IN IF chunk_id \notin seen_chunks /\ ~IsBlank(<<doc.content>>)
          THEN <<doc.content>>
               \o ContentParts(Tail(results), seen_chunks \cup {chunk_id})
          ELSE ContentParts(Tail(results), seen_chunks)

\* get_document_content lines 478-527; the HTTPException raised at line 487
\* is caught by the except clause at line 525
GetDocumentContent(t, docs) ==
  /\ thr[t].pc = "idle"
  /\ \E doc_id \in docs :
       LET rec == [Idle EXCEPT !.pc = "content_done", !.doc = doc_id,
                     !.missing = StoreGet(index, doc_id) = {}]
           found == SearchResults(Retrieve(index, "", doc_id, ContentK))
       IN \E result \in {<<>>, found} :
            IF result = <<>>
            THEN thr' = Enter(t, [rec EXCEPT !.cause = "not_found",
                                             !.out = HttpError(500)], {})
            ELSE thr' = Enter(t, [rec EXCEPT !.out =
                          [HttpOk EXCEPT !.doc_id = doc_id,
                             !.messages = ContentParts(result, {}),
                             !.num_chunks = Len(ContentParts(result, {}))]], {})
  /\ UNCHANGED <<index, document_cache, agentVars, envVars, recent, cleared,
                 switched, sideVars>>

\* --------------------------------------------------------- session routes
\* create_session lines 533-551
CreateSession(t, docs) ==
  /\ thr[t].pc = "idle"
  /\ \E document_id \in docs :
       LET rec == [Idle EXCEPT !.pc = "create_done", !.doc = document_id]
       IN \/ \* the INSERT fails
             /\ thr' = Enter(t, [rec EXCEPT !.failed = TRUE,
                                            !.out = HttpError(500)], {})
             /\ UNCHANGED chat_sessions
          \/ /\ UnusedSessionIds # {}
             /\ chat_sessions' =
                  InsertSession(FreshSessionId, document_id, llm_provider)
             /\ thr' = Enter(t, [rec EXCEPT !.sid = FreshSessionId, !.out =
                          [HttpOk EXCEPT !.session_id = FreshSessionId]], {})
  /\ UNCHANGED <<index, document_cache, agentVars, envVars, recent, cleared,
                 switched, chat_messages, chunker>>

\* save_message lines 583-605 with SessionService.save_message: the session
\* of the path is looked up, the message is stored under the session_id of
\* the body (kept in req). The INSERT and the UPDATE are one transaction; the
\* INSERT can raise, and for a session_id without a row it does so only if
\* the connection enforces foreign keys, which sqlite3 does not by default.
SaveMessage(t) ==
  /\ thr[t].pc = "idle"
  /\ \E session_id \in SessionIds, request_session_id \in SessionIds :
       LET rec == [Idle EXCEPT !.pc = "save_done", !.sid = session_id,
                               !.req = request_session_id,
                               !.missing = ~HasSession(session_id)]
           notFound ==
             /\ thr' = Enter(t, [rec EXCEPT !.cause = "no_session",
                                            !.out = HttpError(404)], {})
             /\ UNCHANGED <<chat_sessions, chat_messages>>
       IN \/ notFound  \* get_session failed and returned None
          \/ ~HasSession(session_id) /\ notFound
          \/ /\ HasSession(session_id)
             /\ \/ \* save_message raises
                   /\ thr' = Enter(t, [rec EXCEPT !.failed = TRUE,
                                         !.cause = "save_user",
                                         !.out = HttpError(500)], {})
                   /\ UNCHANGED <<chat_sessions, chat_messages>>
                \/ /\ Len(chat_messages) + 1 <= MaxMessages
                   /\ chat_messages' =
                        InsertMessage(chat_messages, request_session_id,
                                      "user", "q1", "none", <<>>)
                   /\ chat_sessions' =
                        CountMessage(chat_sessions, request_session_id)
                   /\ thr' = Enter(t, [rec EXCEPT !.ret = TRUE, !.out =
                                [HttpOk EXCEPT !.session_id =
                                                 request_session_id]], {})
  /\ UNCHANGED <<index, document_cache, agentVars, envVars, recent, cleared,
                 switched, chunker>>

\* get_session_detail lines 561-572 and get_session_messages lines 607-626:
\* get_session returns None for a missing row and for a failing query,
\* get_session_messages returns [] for a failing query
ReadSession(t, donePc) ==
  /\ thr[t].pc = "idle"
  /\ \E sid \in SessionIds :
       LET rec == [Idle EXCEPT !.pc = donePc, !.sid = sid,
                               !.missing = ~HasSession(sid)]
       IN \/ thr' = Enter(t, [rec EXCEPT !.failed = TRUE,
                                         !.out = HttpError(404)], {})
          \/ /\ ~HasSession(sid)
             /\ thr' = Enter(t, [rec EXCEPT !.out = HttpError(404)], {})
          \/ /\ HasSession(sid)
             /\ \E messages \in {<<>>, SessionMessages(sid)} :
                  thr' = Enter(t, [rec EXCEPT !.out =
                           [HttpOk EXCEPT !.session_id = sid,
                                          !.messages = messages]], {})
  /\ UNCHANGED <<index, document_cache, agentVars, envVars, recent, cleared,
                 switched, sideVars>>

GetSessionDetail(t) == ReadSession(t, "detail_done")

GetSessionMessages(t) == ReadSession(t, "messages_done")

\* delete_session lines 628-641 with SessionService.delete_session
DeleteSession(t) ==
  /\ thr[t].pc = "idle"
  /\ \E sid \in SessionIds :
       LET rec == [Idle EXCEPT !.pc = "delete_done", !.sid = sid,
                               !.missing = ~HasSession(sid)]
       IN \/ \* a statement fails: False is returned
             /\ thr' = Enter(t, [rec EXCEPT !.failed = TRUE,
                                            !.out = HttpError(404)], {})
             /\ UNCHANGED <<chat_sessions, chat_messages>>
          \/ /\ chat_sessions' = DeleteSessionRows(sid)
             /\ chat_messages' = DeleteSessionMessages(sid)
             /\ thr' = Enter(t, [rec EXCEPT !.ret = HasSession(sid), !.out =
                          IF HasSession(sid) THEN HttpOk ELSE HttpError(404)],
                          {})
  /\ UNCHANGED <<index, document_cache, agentVars, envVars, recent, cleared,
                 switched, chunker>>

\* update_session_model lines 643-656 with SessionService.update_session_model
UpdateSessionModel(t, providers) ==
  /\ thr[t].pc = "idle"
  /\ \E sid \in SessionIds, model_provider \in providers :
       LET rec == [Idle EXCEPT !.pc = "model_done", !.sid = sid,
                               !.req = model_provider,
                               !.missing = ~HasSession(sid)]
       IN \/ /\ thr' = Enter(t, [rec EXCEPT !.failed = TRUE,
                                            !.out = HttpError(404)], {})
             /\ UNCHANGED chat_sessions
          \/ /\ chat_sessions' = SetSessionModel(sid, model_provider)
             /\ thr' = Enter(t, [rec EXCEPT !.ret = HasSession(sid), !.out =
                          IF HasSession(sid) THEN HttpOk ELSE HttpError(404)],
                          {})
  /\ UNCHANGED <<index, document_cache, agentVars, envVars, recent, cleared,
                 switched, chat_messages, chunker>>

\* ask_question lines 298-359 as one call: the response for a question
AskQuestionResult(query, doc_id, retriever_raises, cond) ==
  LET chain == IF doc_id = NoDoc THEN qa_chain
               ELSE [llm |-> llm, prompt |-> prompt]
      r == LLMCall(chain.llm, cond)
  IN IF retriever_raises \/ r.raised THEN AskErrorResponse(llm_provider)
     ELSE AskSuccessResponse(r.text,
            Retrieve(index, query, doc_id, RetrieverK), llm_provider)

\* ask_question_with_session lines 659-730: neither save_message call is
\* guarded, so an exception of either reaches the except clause at line 726
AskQuestionWithSession(t, docs, conds) ==
  /\ thr[t].pc = "idle"
  /\ \E sid \in SessionIds, request_doc \in docs \cup {NoDoc}, cond \in conds,
        retriever_raises \in BOOLEAN :
       LET rec == [Idle EXCEPT !.pc = "sask_done", !.sid = sid,
                               !.missing = ~HasSession(sid)]
           notFound ==
             /\ thr' = Enter(t, [rec EXCEPT !.cause = "no_session",
                                            !.out = HttpError(404)], {})
             /\ UNCHANGED <<chat_sessions, chat_messages>>
       IN \/ notFound  \* get_session failed and returned None
          \/ ~HasSession(sid) /\ notFound
          \/ /\ HasSession(sid)
             /\ LET doc_id == IF request_doc # NoDoc THEN request_doc
                              ELSE SessionRow(sid).document_id
                    current_provider == llm_provider
                    result == AskQuestionResult("q1", doc_id, retriever_raises,
                                                cond)
                    bot_response == result.answer
                    context_sources ==
                      [i \in 1..Len(result.sources) |->
                         [content |-> result.sources[i].content_preview,
                          metadata |-> result.sources[i].metadata]]
                    asked == [rec EXCEPT !.doc = doc_id, !.cond = cond,
                                         !.answer = bot_response,
                                         !.current_provider = current_provider,
                                         !.reported = result.llm_provider]
                    withUser == InsertMessage(chat_messages, sid, "user", "q1",
                                              "none", <<>>)
                IN \/ \* saving the user message raises
                      /\ thr' = Enter(t, [asked EXCEPT !.cause = "save_user",
                                            !.out = HttpError(500)], {})
                      /\ UNCHANGED <<chat_sessions, chat_messages>>
                   \/ \* saving the bot message raises
                      /\ Len(chat_messages) + 1 <= MaxMessages
                      /\ chat_messages' = withUser
                      /\ chat_sessions' = CountMessage(chat_sessions, sid)
                      /\ thr' = Enter(t, [asked EXCEPT !.cause = "save_bot",
                                            !.out = HttpError(500)], {})
                   \/ /\ Len(chat_messages) + 2 <= MaxMessages
                      /\ chat_messages' =
                           InsertMessage(withUser, sid, "bot", bot_response,
                                         current_provider, context_sources)
                      /\ chat_sessions' =
                           CountMessage(CountMessage(chat_sessions, sid), sid)
                      /\ thr' = Enter(t, [asked EXCEPT !.out =
                                   [HttpOk EXCEPT !.answer = bot_response,
                                      !.context = result.sources,
                                      !.session_id = sid]], {})
  /\ UNCHANGED <<index, document_cache, agentVars, envVars, recent, cleared,
                 switched, chunker>>

\* ask_question_with_session in two steps, for callers that overlap with
\* other calls on the agent. Lines 662-676: the session is looked up, doc_id
\* is chosen and get_provider_info() is read into current_provider
SessionAskRead(t, docs) ==
  /\ thr[t].pc = "idle"
  /\ \E sid \in SessionIds, request_doc \in docs \cup {NoDoc} :
       LET rec == [Idle EXCEPT !.sid = sid, !.missing = ~HasSession(sid),
                               !.solo = OthersIdle(t)]
           notFound ==
             thr' = Enter(t, [rec EXCEPT !.pc = "sask_done",
                                         !.cause = "no_session",
                                         !.out = HttpError(404)], {})
       IN \/ notFound  \* get_session failed and returned None
          \/ ~HasSession(sid) /\ notFound
          \/ /\ HasSession(sid)
             /\ thr' = Enter(t, [rec EXCEPT
                          !.pc = "sask_ask",
                          !.doc = IF request_doc # NoDoc THEN request_doc
                                  ELSE SessionRow(sid).document_id,
                          !.current_provider = llm_provider], {})
  /\ UNCHANGED <<index, document_cache, agentVars, envVars, recent, cleared,
                 switched, sideVars>>

\* lines 678-724: the agent answers, then the user message and the bot
\* message are saved, the bot message with the provider read before
SessionAskAnswer(t, conds) ==
  /\ thr[t].pc = "sask_ask"
  /\ \E cond \in conds, retriever_raises \in BOOLEAN :
       LET sid == thr[t].sid
           result == AskQuestionResult("q1", thr[t].doc, retriever_raises,
                                       cond)
           bot_response == result.answer
           context_sources ==
             [i \in 1..Len(result.sources) |->
                [content |-> result.sources[i].content_preview,
                 metadata |-> result.sources[i].metadata]]
           asked == [thr[t] EXCEPT !.pc = "sask_done", !.cond = cond,
                                   !.answer = bot_response,
                                   !.reported = result.llm_provider]
           withUser == InsertMessage(chat_messages, sid, "user", "q1",
                                     "none", <<>>)
       IN \/ \* saving the user message raises
             /\ thr' = [thr EXCEPT ![t] = [asked EXCEPT
                                             !.cause = "save_user",
                                             !.out = HttpError(500)]]
             /\ UNCHANGED <<chat_sessions, chat_messages>>
          \/ \* saving the bot message raises
             /\ Len(chat_messages) + 1 <= MaxMessages
             /\ chat_messages' = withUser
             /\ chat_sessions' = CountMessage(chat_sessions, sid)
             /\ thr' = [thr EXCEPT ![t] = [asked EXCEPT
                                             !.cause = "save_bot",
                                             !.out = HttpError(500)]]
          \/ /\ Len(chat_messages) + 2 <= MaxMessages
             /\ chat_messages' =
                  InsertMessage(withUser, sid, "bot", bot_response,
                                thr[t].current_provider, context_sources)
             /\ chat_sessions' =
                  CountMessage(CountMessage(chat_sessions, sid), sid)
             /\ thr' = [thr EXCEPT ![t] = [asked EXCEPT !.out =
                          [HttpOk EXCEPT !.answer = bot_response,
                             !.context = result.sources,
                             !.session_id = sid]]]
  /\ UNCHANGED <<index, document_cache, agentVars, envVars, recent, cleared,
                 switched, chunker>>

\* ---------------------------------------------------------------- chunk_text
\* a string is the sequence of its characters
IsSpace(c) == c \in {" ", "\n"}

\* s.strip()
RECURSIVE StrStrip(_)
StrStrip(s) ==
  IF s = <<>> THEN <<>>
  ELSE IF IsSpace(Head(s)) THEN StrStrip(Tail(s))
  ELSE IF IsSpace(s[Len(s)]) THEN StrStrip(SubSeq(s, 1, Len(s) - 1))
  ELSE s

\* s.split(): the maximal runs of non-whitespace characters
RECURSIVE SplitWs(_, _)
SplitWs(s, word) ==
  IF s = <<>> THEN IF word = <<>> THEN <<>> ELSE <<word>>
  ELSE IF IsSpace(Head(s))
       THEN (IF word = <<>> THEN <<>> ELSE <<word>>) \o SplitWs(Tail(s), <<>>)
       ELSE SplitWs(Tail(s), Append(word, Head(s)))

StrSplit(s) == SplitWs(s, <<>>)

IsPrefix(p, s) == Len(p) <= Len(s) /\ SubSeq(s, 1, Len(p)) = p

\* s.split(sep): the pieces between the occurrences of sep, left to right
RECURSIVE SplitSep(_, _, _)
SplitSep(s, sep, piece) ==
  IF s = <<>> THEN <<piece>>
  ELSE IF IsPrefix(sep, s)
       THEN <<piece>> \o SplitSep(SubSeq(s, Len(sep) + 1, Len(s)), sep, <<>>)
       ELSE SplitSep(Tail(s), sep, Append(piece, Head(s)))

\* sep.join(strings)
RECURSIVE StrJoin(_, _)
StrJoin(strings, sep) ==
  IF strings = <<>> THEN <<>>
  ELSE IF Len(strings) = 1 THEN strings[1]
  ELSE strings[1] \o sep \o StrJoin(Tail(strings), sep)

\* an index of a Python slice, brought into 0..len
SliceIndex(i, len) ==
  IF i < 0 THEN (IF len + i < 0 THEN 0 ELSE len + i)
  ELSE IF i > len THEN len ELSE i

\* seq[start:stop]
PySlice(seq, start, stop) ==
  SubSeq(seq, SliceIndex(start, Len(seq)) + 1, SliceIndex(stop, Len(seq)))

\* seq[start:]
PySliceFrom(seq, start) ==
  SubSeq(seq, SliceIndex(start, Len(seq)) + 1, Len(seq))

\* lines 75-76: the words carried over into the next chunk
OverlapWords(current_chunk, overlap) ==
  LET words == StrSplit(current_chunk)
  IN IF Len(words) > overlap \div 4
     THEN PySliceFrom(words, (0 - overlap) \div 4)
     ELSE PySliceFrom(words, 0 - 10)

\* lines 63-89: the loop over the paragraphs and the last chunk
RECURSIVE ParagraphChunks(_, _, _, _, _, _)
ParagraphChunks(paragraphs, chunks, current_chunk, chunk_size, overlap, sep) ==
  LET closed == IF StrStrip(current_chunk) # <<>>
                THEN Append(chunks, StrStrip(current_chunk)) ELSE chunks
  IN IF paragraphs = <<>> THEN closed
     ELSE LET paragraph == StrStrip(Head(paragraphs))
              rest == Tail(paragraphs)
          IN IF paragraph = <<>>
             THEN ParagraphChunks(rest, chunks, current_chunk, chunk_size,
                                  overlap, sep)
             ELSE IF /\ Len(current_chunk) + Len(paragraph) + 2 > chunk_size
                     /\ current_chunk # <<>>
             THEN ParagraphChunks(rest, closed,
                    IF overlap > 0
                    THEN StrJoin(OverlapWords(current_chunk, overlap), <<" ">>)
                         \o <<" ">> \o paragraph
                    ELSE paragraph,
                    chunk_size, overlap, sep)
             ELSE ParagraphChunks(rest, chunks,
                    IF current_chunk # <<>>
                    THEN current_chunk \o sep \o paragraph ELSE paragraph,
                    chunk_size, overlap, sep)

\* variant: the step adds the overlap instead of subtracting it
WindowStepPlus(chunk_size, overlap) == chunk_size + overlap

\* line 96: the step of range(0, len(words), chunk_size - overlap)
WindowStep(chunk_size, overlap) == chunk_size - overlap

\* variant: every window is emitted, also an empty one
RECURSIVE WordWindowsUnguarded(_, _, _, _)
WordWindowsUnguarded(words, i, chunk_size, step) ==
  IF i >= Len(words) THEN <<>>
  ELSE <<StrStrip(StrJoin(PySlice(words, i, i + chunk_size), <<" ">>))>>
       \o WordWindowsUnguarded(words, i + step, chunk_size, step)

\* lines 96-99: one chunk per window position i, for a positive step
RECURSIVE WordWindows(_, _, _, _)
WordWindows(words, i, chunk_size, step) ==
  IF i >= Len(words) THEN <<>>
  ELSE LET chunk == StrJoin(PySlice(words, i, i + chunk_size), <<" ">>)
       IN (IF StrStrip(chunk) # <<>> THEN <<StrStrip(chunk)>> ELSE <<>>)
          \o WordWindows(words, i + step, chunk_size, step)

\* variant: two paragraph chunks are already enough to keep them
ChunkTextWithLowBar(text, chunk_size, overlap, sep) ==
  LET chunks == ParagraphChunks(SplitSep(text, sep, <<>>), <<>>, <<>>,
                                chunk_size, overlap, sep)
      step == WindowStep(chunk_size, overlap)
  IN IF Len(chunks) >= 2 THEN [raised |-> FALSE, chunks |-> chunks]
     ELSE IF step = 0 THEN [raised |-> TRUE, chunks |-> <<>>]
     ELSE IF step < 0 THEN [raised |-> FALSE, chunks |-> <<>>]
     ELSE [raised |-> FALSE,
           chunks |-> WordWindows(StrSplit(text), 0, chunk_size, step)]

\* the body shared by both chunk_text functions; sep is the separator the
\* function splits on and joins with. range() raises for a step of 0 and is
\* empty for a negative one.
ChunkTextWith(text, chunk_size, overlap, sep) ==
  LET chunks == ParagraphChunks(SplitSep(text, sep, <<>>), <<>>, <<>>,
                                chunk_size, overlap, sep)
      step == WindowStep(chunk_size, overlap)
  IN IF Len(chunks) >= 3 THEN [raised |-> FALSE, chunks |-> chunks]
     ELSE IF step = 0 THEN [raised |-> TRUE, chunks |-> <<>>]
     ELSE IF step < 0 THEN [raised |-> FALSE, chunks |-> <<>>]
     ELSE [raised |-> FALSE,
           chunks |-> WordWindows(StrSplit(text), 0, chunk_size, step)]

\* pdf_service.chunk_text: splits on two newline characters
ChunkText(text, chunk_size, overlap) ==
  ChunkTextWith(text, chunk_size, overlap, <<"\n", "\n">>)

\* document_service.chunk_text: its separator '\\n\\n' is the four
\* characters backslash, n, backslash, n
DocumentServiceChunkText(text, chunk_size, overlap) ==
  ChunkTextWith(text, chunk_size, overlap, <<"\\", "n", "\\", "n">>)

\* the pieces the input texts of chunk_text are put together from: words,
\* a blank, a line break, a paragraph break, and the characters \n\n as
\* they are written in document_service
TextPieces(fn) ==
  IF fn = "pdf_service"
  THEN {<<"a">>, <<"a", "b", "a", "b">>, <<" ">>, <<"\n">>, <<"\n", "\n">>}
  ELSE {<<"a">>, <<" ">>, <<"\n", "\n">>, <<"\\", "n", "\\", "n">>}

RECURSIVE Concat(_)
Concat(pieces) ==
  IF pieces = <<>> THEN <<>> ELSE Head(pieces) \o Concat(Tail(pieces))

\* the texts of at most MaxPieces pieces
ChunkTexts(fn) ==
  {Concat(ps) : ps \in UNION {[1..n -> TextPieces(fn)] : n \in 0..MaxPieces}}

\* (chunk_size, overlap) pairs: windows with and without overlap, an overlap
\* of a word or more, and the sizes for which the step is zero or negative
ChunkParams ==
  {<<2, 0>>, <<2, 1>>, <<5, 4>>, <<1, 1>>, <<0, 0 - 1>>, <<2, 4>>}

ChunkerInputs(fn) ==
  {[NoChunker EXCEPT !.fn = fn, !.text = text, !.chunk_size = cp[1],
                     !.overlap = cp[2]] :
     text \in ChunkTexts(fn), cp \in ChunkParams}

\* pdf_service.chunk_text(text, chunk_size, overlap) is applied
ApplyChunkText ==
  /\ chunker.fn = "pdf_service" /\ ~chunker.done
  /\ LET r == ChunkText(chunker.text, chunker.chunk_size, chunker.overlap)
     IN chunker' = [chunker EXCEPT !.done = TRUE, !.raised = r.raised,
                                   !.chunks = r.chunks]
  /\ UNCHANGED <<index, document_cache, agentVars, envVars, thr, recent,
                 cleared, switched, chat_sessions, chat_messages>>

\* document_service.chunk_text(text, chunk_size, overlap) is applied
ApplyDocumentServiceChunkText ==
  /\ chunker.fn = "document_service" /\ ~chunker.done
  /\ LET r == DocumentServiceChunkText(chunker.text, chunker.chunk_size,
                                       chunker.overlap)
     IN chunker' = [chunker EXCEPT !.done = TRUE, !.raised = r.raised,
                                   !.chunks = r.chunks]
  /\ UNCHANGED <<index, document_cache, agentVars, envVars, thr, recent,
                 cleared, switched, chat_sessions, chat_messages>>

\* ------------------------------------------------------------------ return
\* the caller receives the value its call returned
Return(t) ==
  /\ thr[t].pc \in DonePcs
  /\ recent' = IF thr[t].pc = "add_done"
               THEN <<thr[t].doc, thr[t].texts, thr[t].ret>> ELSE NoRecent
  /\ thr' = [thr EXCEPT ![t] = Idle]
  /\ UNCHANGED <<index, document_cache, agentVars, envVars, cleared, switched,
               sideVars>>

\* ----------------------------------------------------------- specifications
\* the module-level instance: EnhancedLangChainAgent(llm_provider="gemini")
Init ==
  /\ index = {}
  /\ document_cache = {}
  /\ gemini_available \in BOOLEAN
  /\ mistral_available \in BOOLEAN
  /\ llm_provider = InitializeLLM("gemini", gemini_available, mistral_available)
  /\ llm = llm_provider
  /\ prompt = PromptFor(llm_provider)
  /\ qa_chain = [llm |-> llm_provider, prompt |-> PromptFor(llm_provider)]
  /\ thr = [t \in Threads |-> Idle]
  /\ recent = NoRecent
  /\ cleared = FALSE
  /\ switched = NoSwitch
  /\ chat_sessions = {}
  /\ chat_messages = <<>>
  /\ chunker = NoChunker

\* ingestion and index reads never look at the providers: the instance with
\* both of them available
InitIngest == Init /\ gemini_available /\ mistral_available

\* Spec: ingestion and index reads, one call at a time
Next ==
  \/ AddStart("t1", Docs, TextsInputs)
  \/ AddGet("t1")
  \/ AddDelete("t1")
  \/ AddInsert("t1")
  \/ ClearStart("t1")
  \/ ClearDelete("t1")
  \/ Search("t1", Docs)
  \/ GetCollectionInfo("t1")
  \/ Return("t1")

Spec == InitIngest /\ [][Next]_vars

\* SpecAsk: question answering and provider switching over a small index,
\* one call at a time
NextAsk ==
  \/ AddStart("t1", {"d1"}, {TextA, TextBC})
  \/ AddGet("t1")
  \/ AddDelete("t1")
  \/ AddInsert("t1")
  \/ ClearStart("t1")
  \/ ClearDelete("t1")
  \/ Search("t1", {"d1"})
  \/ GetCollectionInfo("t1")
  \/ AskRetrieve("t1", Docs)
  \/ AskGenerate("t1")
  \/ AskRespond("t1")
  \/ SwitchLLMProvider("t1")
  \/ Return("t1")

SpecAsk == Init /\ [][NextAsk]_vars

\* SpecConc: two callers of ingestion and index reads interleave on one
\* document; every text is one chunk, so that an insert is one store write
NextConc ==
  \E t \in Threads :
    \/ AddStart(t, {"d1"}, {TextA, TextB})
    \/ AddGet(t)
    \/ AddDelete(t)
    \/ AddInsert(t)
    \/ Search(t, {"d1"})
    \/ GetCollectionInfo(t)
    \/ Return(t)

SpecConc == InitIngest /\ [][NextConc]_vars

\* SpecRoutes: the upload, document and session routes, one request at a time
NextRoutes ==
  \/ UploadDocument("t1")
  \/ GetDocumentContent("t1", Docs)
  \/ CreateSession("t1", {"d1"})
  \/ GetSessionDetail("t1")
  \/ GetSessionMessages("t1")
  \/ DeleteSession("t1")
  \/ UpdateSessionModel("t1", {"mistral"})
  \/ AskQuestionWithSession("t1", {"d1"}, {"ok", "timeout"})
  \/ Return("t1")

SpecRoutes == Init /\ [][NextRoutes]_vars

\* SpecSessions: the routes that write chat_sessions and chat_messages, one
\* request at a time, over an empty index
NextSessions ==
  \/ CreateSession("t1", {"d1"})
  \/ SaveMessage("t1")
  \/ AskQuestionWithSession("t1", {"d1"}, {"ok"})
  \/ DeleteSession("t1")
  \/ Return("t1")

SpecSessions == InitIngest /\ [][NextSessions]_vars

\* SpecSwitch: one caller asks within a session while another caller switches
\* the provider of the shared agent; the session of document d1 has been
\* created before
InitSwitch ==
  /\ index = {}
  /\ document_cache = {}
  /\ gemini_available = TRUE
  /\ mistral_available = TRUE
  /\ llm_provider = InitializeLLM("gemini", TRUE, TRUE)
  /\ llm = llm_provider
  /\ prompt = PromptFor(llm_provider)
  /\ qa_chain = [llm |-> llm_provider, prompt |-> PromptFor(llm_provider)]
  /\ thr = [t \in Threads |-> Idle]
  /\ recent = NoRecent
  /\ cleared = FALSE
  /\ switched = NoSwitch
  /\ chat_sessions = {[session_id |-> "s1", document_id |-> "d1",
                       model_provider |-> llm_provider, message_count |-> 0]}
  /\ chat_messages = <<>>
  /\ chunker = NoChunker

NextSwitch ==
  \/ SessionAskRead("t1", {"d1"})
  \/ SessionAskAnswer("t1", {"ok", "timeout"})
  \/ SwitchLLMProvider("t2")
  \/ \E t \in Threads : Return(t)

SpecSwitch == InitSwitch /\ [][NextSwitch]_vars

\* SpecChunk: chunk_text of both modules applied to every input text
InitChunk ==
  /\ index = {}
  /\ document_cache = {}
  /\ gemini_available = FALSE
  /\ mistral_available = FALSE
  /\ llm_provider = InitializeLLM("gemini", FALSE, FALSE)
  /\ llm = llm_provider
  /\ prompt = PromptFor(llm_provider)
  /\ qa_chain = [llm |-> llm_provider, prompt |-> PromptFor(llm_provider)]
  /\ thr = [t \in Threads |-> Idle]
  /\ recent = NoRecent
  /\ cleared = FALSE
  /\ switched = NoSwitch
  /\ chat_sessions = {}
  /\ chat_messages = <<>>
  /\ chunker \in ChunkerInputs("pdf_service")
               \cup ChunkerInputs("document_service")

NextChunk ==
  \/ ApplyChunkText
  \/ ApplyDocumentServiceChunkText

SpecChunk == InitChunk /\ [][NextChunk]_vars

\* SpecSources: the response building of ask_question applied to every
\* retrieval result of up to RetrieverK chunks of one stored document
PreviewUnits == 1..5

SourceBlocks ==
  UNION {[1..n -> PreviewUnits] : n \in 0..RetrieverK}

InitSources ==
  /\ \E block \in SourceBlocks, query \in Queries :
       /\ index = StoreAdd({}, BuildDocuments(<<block>>, "d1"), {})
       /\ document_cache = {CacheKey(<<block>>, "d1")}
       /\ thr = [t \in Threads |->
                   IF t = "t1"
                   THEN [Idle EXCEPT
                           !.pc = "ask_respond", !.doc = "d1",
                           !.zero = block = <<>>,
                           !.retrieved =
                              Retrieve(StoreAdd({}, BuildDocuments(<<block>>,
                                         "d1"), {}), query, "d1", RetrieverK),
                           !.backend = "gemini", !.template = "gemini",
                           !.cond = "ok", !.answer = "answer"]
                   ELSE Idle]
  /\ gemini_available = TRUE
  /\ mistral_available = TRUE
  /\ llm_provider = InitializeLLM("gemini", TRUE, TRUE)
  /\ llm = llm_provider
  /\ prompt = PromptFor(llm_provider)
  /\ qa_chain = [llm |-> llm_provider, prompt |-> PromptFor(llm_provider)]
  /\ recent = NoRecent
  /\ cleared = FALSE
  /\ switched = NoSwitch
  /\ chat_sessions = {}
  /\ chat_messages = <<>>
  /\ chunker = NoChunker

NextSources ==
  \/ AskRespond("t1")
  \/ Return("t1")

SpecSources == InitSources /\ [][NextSources]_vars

\* ------------------------------------------------------------------ claims
Fingerprints(results) ==
  {results[i].metadata.content_hash : i \in 1..Len(results)}

\* C1: a second add_documents call with the doc_id and texts of the call that
\* just returned true returns true and leaves the chunks of that doc_id as
\* they were (same count, same chunk ids, same fingerprints).
C1_ReingestIdempotent ==
  \A t \in Threads :
    thr[t].pc = "add_done" /\ thr[t].idem
      => thr[t].ret /\ View(index, thr[t].doc) = thr[t].before

\* C2: an add_documents call that returns true, with no store operation
\* failing, for a doc_id that holds chunks of other content leaves exactly the
\* chunks of the new content for that doc_id.
C2_SupersedeReplaces ==
  \A t \in Threads :
    /\ thr[t].pc = "add_done" /\ thr[t].ret /\ ~thr[t].failed /\ thr[t].solo
    /\ thr[t].before.n > 0
    /\ ContentHash(thr[t].texts) \notin thr[t].before.hashes
    => View(index, thr[t].doc) = Expected(thr[t].texts, thr[t].doc)

\* C3: a reader that runs while add_documents replaces the chunks of a doc_id
\* sees chunks of that doc_id, all of one fingerprint.
C3_ReplaceAtomicForReaders ==
  \A t \in Threads :
    /\ thr[t].pc = "search_done" /\ ~thr[t].failed /\ thr[t].doc \in thr[t].busy
         => Len(thr[t].out) > 0 /\ Cardinality(Fingerprints(thr[t].out)) = 1
    /\ thr[t].pc \in {"ask_llm", "ask_respond"} /\ thr[t].doc \in thr[t].busy
         => /\ Len(thr[t].retrieved) > 0
            /\ Cardinality({thr[t].retrieved[i].hash :
                              i \in 1..Len(thr[t].retrieved)}) = 1
    /\ thr[t].pc = "info_done" /\ ~thr[t].failed
         => \A d \in thr[t].busy :
              d \in DOMAIN thr[t].out.documents /\ thr[t].out.documents[d] > 0

\* C4: once two overlapping add_documents calls for one doc_id with different
\* texts have both returned true, no store operation failing, the doc_id
\* holds the chunks of exactly one of the two texts.
C4_ConcurrentAddsSerialized ==
  \A t, u \in Threads :
    /\ t # u
    /\ thr[t].pc = "add_done" /\ thr[u].pc = "add_done"
    /\ thr[t].rival /\ thr[u].rival
    /\ thr[t].ret /\ thr[u].ret /\ ~thr[t].failed /\ ~thr[u].failed
    /\ thr[t].doc = thr[u].doc /\ thr[t].texts # thr[u].texts
    => \/ View(index, thr[t].doc) = Expected(thr[t].texts, thr[t].doc)
       \/ View(index, thr[t].doc) = Expected(thr[u].texts, thr[t].doc)

\* C5: add_documents returns false whenever a store operation of the call
\* (lookup, delete, insert) failed.
C5_StoreFailureReturnsFalse ==
  \A t \in Threads :
    thr[t].pc = "add_done" /\ thr[t].failed => ~thr[t].ret

\* C6: ask_question for a doc_id without chunks returns search_successful
\* false and no sources.
C6_AskEmptyDocFails ==
  \A t \in Threads :
    thr[t].pc = "ask_done" /\ thr[t].zero
      => ~thr[t].out.search_successful /\ thr[t].out.sources = <<>>

\* C7: when the backend fails during ask_question the answer has
\* search_successful false and no sources, whatever the provider.
C7_BackendFailureFails ==
  \A t \in Threads :
    thr[t].pc = "ask_done" /\ thr[t].cond \notin {"ok", "none"}
      => ~thr[t].out.search_successful /\ thr[t].out.sources = <<>>

\* C8: ask_question always returns the five-key structure, also when the
\* retriever or the backend raised, and a response with search_successful
\* false has no sources.
C8_AskWellFormed ==
  \A t \in Threads :
    thr[t].pc = "ask_done"
      => /\ DOMAIN thr[t].out = ResponseKeys
         /\ thr[t].out.search_successful \in BOOLEAN
         /\ thr[t].out.llm_provider \in Providers
         /\ thr[t].out.source_count >= Len(thr[t].out.sources)
         /\ ~thr[t].out.search_successful => thr[t].out.sources = <<>>
         /\ thr[t].failed => ~thr[t].out.search_successful

\* a retriever or backend exception was turned into a response
C8_Witness ==
  \E t \in Threads :
    /\ thr[t].pc = "ask_done" /\ thr[t].failed
    /\ thr[t].cond = "network_error" /\ Len(thr[t].retrieved) > 0
    /\ ~thr[t].out.search_successful

\* C9: in auto mode the selection is gemini if available, else mistral if
\* available, else ollama.
C9_AutoPriority ==
  \A t \in Threads :
    thr[t].pc = "switch_done" /\ thr[t].req = "auto"
      => /\ thr[t].out \in Providers
         /\ thr[t].out = IF gemini_available THEN "gemini"
                         ELSE IF mistral_available THEN "mistral"
                         ELSE "ollama"

\* auto mode passed over an unavailable gemini and took mistral
C9_Witness ==
  \E t \in Threads :
    /\ thr[t].pc = "switch_done" /\ thr[t].req = "auto"
    /\ ~gemini_available /\ mistral_available /\ thr[t].out = "mistral"

Available(p) ==
  IF p = "gemini" THEN gemini_available
  ELSE IF p = "mistral" THEN mistral_available ELSE TRUE

Priority(p) == IF p = "gemini" THEN 1 ELSE IF p = "mistral" THEN 2 ELSE 3

\* C10: an explicitly requested provider is selected if available, else the
\* first available provider below it in the order gemini > mistral > ollama.
C10_ExplicitDegradesDown ==
  \A t \in Threads :
    thr[t].pc = "switch_done" /\ thr[t].req \in Providers
      => /\ thr[t].out \in Providers
         /\ Available(thr[t].out)
         /\ Priority(thr[t].out) >= Priority(thr[t].req)
         /\ \A q \in Providers :
              Available(q) /\ Priority(q) >= Priority(thr[t].req)
                => Priority(thr[t].out) <= Priority(q)

\* unavailable mistral was requested while gemini is available: ollama
C10_Witness ==
  \E t \in Threads :
    /\ thr[t].pc = "switch_done" /\ thr[t].req = "mistral"
    /\ gemini_available /\ ~mistral_available /\ thr[t].out = "ollama"

\* C11 as stated: after switch_llm_provider(p) has returned true for one of
\* the providers p, an answer reports p and comes from the backend and the
\* template of p.
C11_SwitchReportsRequested ==
  \A t \in Threads :
    thr[t].pc = "ask_done" /\ switched.req \in Providers
      => /\ thr[t].out.llm_provider = switched.req
         /\ thr[t].backend # "none"
              => thr[t].backend = switched.req /\ thr[t].template = switched.req

\* C11 amended: after switch_llm_provider(p) has returned true for one of the
\* providers p, an answer reports the provider that the call selected (p when
\* p is available, else the next available one below p) and comes from the
\* backend and the template of that provider, until the next switch.
C11_SwitchReportsSelected ==
  \A t \in Threads :
    thr[t].pc = "ask_done" /\ switched.req \in Providers
      => /\ thr[t].out.llm_provider = switched.out
         /\ thr[t].backend # "none"
              => /\ thr[t].backend = switched.out
                 /\ thr[t].template = PromptFor(switched.out)

\* the agent started on gemini, was switched to mistral, and an unscoped
\* question was answered by mistral
C11_Witness ==
  \E t \in Threads :
    /\ thr[t].pc = "ask_done" /\ thr[t].doc = NoDoc
    /\ gemini_available /\ switched = [req |-> "mistral", out |-> "mistral"]
    /\ thr[t].backend = "mistral" /\ thr[t].template = "mistral"
    /\ thr[t].out.llm_provider = "mistral" /\ thr[t].out.search_successful

\* C12: once clear_all_documents has returned true and until an ingestion
\* starts, get_collection_info reports no chunk and no document, a search
\* returns nothing and a question retrieves no source.
C12_ClearEmpties ==
  \A t \in Threads :
    cleared
      => /\ thr[t].pc = "info_done"
              => /\ thr[t].out.total_chunks = 0
                 /\ DOMAIN thr[t].out.documents = {}
         /\ thr[t].pc = "search_done" => thr[t].out = <<>>
         /\ thr[t].pc \in {"ask_llm", "ask_respond"} => thr[t].retrieved = <<>>
         /\ thr[t].pc = "ask_done"
              => thr[t].out.sources = <<>> /\ thr[t].out.source_count = 0

\* documents were ingested, then cleared, and the collection reports empty
C12_Witness ==
  \E t \in Threads :
    /\ thr[t].pc = "info_done" /\ ~thr[t].failed /\ cleared
    /\ Cardinality(document_cache) = 2
    /\ thr[t].out.total_chunks = 0 /\ thr[t].out.status = "healthy"

C14_SaveFailureKeepsAnswer ==
  \A t \in Threads :
    thr[t].pc = "sask_done" /\ thr[t].cause \in {"save_user", "save_bot"}
      => thr[t].out.status = 200 /\ thr[t].out.answer = thr[t].answer

\* C15: a route that is given a doc_id without stored chunks or the id of a
\* session that does not exist answers with status 404.
C15_MissingIsNotFound ==
  \A t \in Threads :
    thr[t].pc \in RouteDonePcs /\ thr[t].missing => thr[t].out.status = 404

\* C16: an upload with an unsupported extension, a failed extraction or a
\* blank extracted text is answered with an error and no doc_id, and the
\* collection and the ingestion cache stay as they were.
C16_RejectedUploadNoEffect ==
  [][\A t \in Threads :
       /\ thr[t].pc = "idle" /\ thr'[t].pc = "upload_done"
       /\ \/ ~IsSupported(thr'[t].file.name)
          \/ ~thr'[t].file.extracted
          \/ Strip(thr'[t].file.text) = <<>>
       => /\ thr'[t].out.status \in 400..599
          /\ thr'[t].out.doc_id = NoDoc
          /\ ~thr'[t].ret
          /\ index' = index
          /\ document_cache' = document_cache]_vars

\* a whitespace-only text was extracted from a supported file while a
\* document is stored, and the upload was rejected
C16_Witness ==
  \E t \in Threads :
    /\ thr[t].pc = "upload_done" /\ thr[t].cause = "blank"
    /\ thr[t].file.text = <<0, 0>> /\ thr[t].file.name.ext = ".PDF"
    /\ thr[t].out.status = 400 /\ index # {} /\ document_cache # {}

\* C17: chunk_text of either module returns no chunk that is empty after
\* trimming, and no chunk at all for an empty or whitespace-only text
\* (a call that raises returns no chunk either).
C17_ChunksNonBlank ==
  chunker.done
    => /\ \A i \in 1..Len(chunker.chunks) : StrStrip(chunker.chunks[i]) # <<>>
       /\ StrStrip(chunker.text) = <<>> => chunker.chunks = <<>>

\* a text with blanks around its paragraphs was chunked into one window
C17_Witness ==
  /\ chunker.done /\ ~chunker.raised /\ chunker.fn = "pdf_service"
  /\ chunker.text = <<" ", "a", "\n", "\n", " ", "a">>
  /\ chunker.chunk_size = 2 /\ chunker.overlap = 0
  /\ chunker.chunks = << <<"a", " ", "a">> >>

IsSuffix(p, s) ==
  Len(p) <= Len(s) /\ SubSeq(s, Len(s) - Len(p) + 1, Len(s)) = p

\* the word lists chunkWords, each without a start that repeats the end of
\* the list before it, add up to the word list rest
RECURSIVE Reconstructs(_, _, _)
Reconstructs(chunkWords, previous, rest) ==
  IF chunkWords = <<>> THEN rest = <<>>
  ELSE LET words == Head(chunkWords)
       IN \E k \in 0..Len(words) :
            /\ IsSuffix(SubSeq(words, 1, k), previous)
            /\ IsPrefix(SubSeq(words, k + 1, Len(words)), rest)
            /\ Reconstructs(Tail(chunkWords), words,
                            SubSeq(rest, Len(words) - k + 1, Len(rest)))

\* C18: for chunk_size > overlap >= 0, pdf_service.chunk_text returns chunks
\* in which every word of the text occurs, and whose words, without the
\* overlap repeated at the start of a chunk, are the words of the text in
\* their order.
C18_ChunksCoverInput ==
  /\ chunker.done /\ chunker.fn = "pdf_service"
  /\ chunker.chunk_size > chunker.overlap /\ chunker.overlap >= 0
  => LET chunkWords == [i \in 1..Len(chunker.chunks) |->
                          StrSplit(chunker.chunks[i])]
         words == StrSplit(chunker.text)
     IN /\ ~chunker.raised
        /\ \A w \in 1..Len(words) :
             \E i \in 1..Len(chunkWords) :
               \E j \in 1..Len(chunkWords[i]) : chunkWords[i][j] = words[w]
        /\ Reconstructs(chunkWords, <<>>, words)

\* three paragraphs became three chunks, the later ones starting with the
\* last word of the chunk before
C18_Witness ==
  /\ chunker.done /\ chunker.fn = "pdf_service"
  /\ chunker.text = <<"a", "\n", "\n", "a", "b", "a", "b", "\n", "\n", "a">>
  /\ chunker.chunk_size = 2 /\ chunker.overlap = 1
  /\ chunker.chunks = << <<"a">>, <<"a", " ", "a", "b", "a", "b">>,
                         <<"a", "b", "a", "b", " ", "a">> >>

\* C19: an add_documents call that returns true right after a call with the
\* same doc_id and texts returned false leaves exactly the chunks of texts for
\* that doc_id, each once.
C19_RetryCompletes ==
  \A t \in Threads :
    thr[t].pc = "add_done" /\ thr[t].retry /\ thr[t].ret
      => View(index, thr[t].doc) = Expected(thr[t].texts, thr[t].doc)

\* C20: no step of an add_documents call for doc_id X adds, removes or changes
\* a chunk of another doc_id.
C20_OtherDocsUntouched ==
  [][\A t \in Threads :
       /\ thr[t].pc \in AddPcs \cup {"idle"}
       /\ thr'[t].pc \in AddPcs \cup {"add_done"}
       => \A d \in Docs \ {thr'[t].doc} :
            StoreGet(index', d) = StoreGet(index, d)]_vars

\* an add_documents call has replaced the chunks of its doc_id while another
\* document holds chunks
C20_Witness ==
  \E t \in Threads :
    /\ thr[t].pc = "add_done" /\ thr[t].ret /\ ~thr[t].failed
    /\ thr[t].before.n > 0
    /\ View(index, thr[t].doc) = Expected(thr[t].texts, thr[t].doc)
    /\ View(index, thr[t].doc) # thr[t].before
    /\ \E d \in Docs \ {thr[t].doc} : StoreGet(index, d) # {}

\* C21: no two stored chunks carry the same chunk_id.
C21_ChunkIdsDistinct ==
  \A c, d \in index : ChunkId(c) = ChunkId(d) => c = d

\* C22: a successful ask_question response has one source for each of the
\* first three retrieved chunks, in retrieval order; each preview is the
\* first PreviewLen characters of its chunk with every line break replaced by
\* a blank, followed by "...", and holds no line break.
C22_SourcesArePreviews ==
  \A t \in Threads :
    thr[t].pc = "ask_done" /\ thr[t].out.search_successful
      => LET sources == thr[t].out.sources
             retrieved == thr[t].retrieved
         IN /\ Len(sources) = IF Len(retrieved) < 3 THEN Len(retrieved) ELSE 3
            /\ \A i \in 1..Len(sources) :
                 LET page_content == PageContent(retrieved[i].text)
                     preview == sources[i].content_preview
                     n == Len(preview) - 3
                 IN /\ sources[i].chunk_index = i - 1
                    /\ sources[i].metadata = Meta(retrieved[i])
                    /\ n >= 0 /\ n <= PreviewLen /\ n <= Len(page_content)
                    /\ n = PreviewLen \/ n = Len(page_content)
                    /\ \A j \in 1..n :
                         preview[j] = IF page_content[j] = "\n" THEN " "
                                      ELSE page_content[j]
                    /\ SubSeq(preview, n + 1, n + 3) = <<".", ".", ".">>
                    /\ \A j \in 1..Len(preview) : preview[j] # "\n"

\* four chunks were retrieved, three sources are reported, and the preview
\* of a chunk longer than PreviewLen ends at a replaced line break
C22_Witness ==
  \E t \in Threads :
    /\ thr[t].pc = "ask_done" /\ thr[t].out.search_successful
    /\ Len(thr[t].retrieved) = 4 /\ Len(thr[t].out.sources) = 3
    /\ thr[t].retrieved[1].text = 5 /\ thr[t].retrieved[2].text = 2
    /\ Len(thr[t].out.sources[1].content_preview) = PreviewLen + 3
    /\ thr[t].out.sources[1].content_preview[PreviewLen] = " "
    /\ thr[t].out.sources[2].content_preview = <<"b", " ", "c", ".", ".", ".">>

\* the separator the chunk_text of module fn splits on
SeparatorOf(fn) ==
  IF fn = "pdf_service" THEN <<"\n", "\n">> ELSE <<"\\", "n", "\\", "n">>

\* the chunks the paragraph loop of the applied chunk_text call yields
ParagraphResult ==
  ParagraphChunks(SplitSep(chunker.text, SeparatorOf(chunker.fn), <<>>),
                  <<>>, <<>>, chunker.chunk_size, chunker.overlap,
                  SeparatorOf(chunker.fn))

\* C23: chunk_text returns the paragraph chunks unchanged when there are
\* three or more of them; with fewer it discards them and, for
\* chunk_size >= 1 and step = chunk_size - overlap >= 1, returns one chunk
\* for each window start 0, step, 2*step, ... below the number of words,
\* holding the words from that start up to chunk_size of them.
C23_FallbackBelowThree ==
  chunker.done
    => LET words == StrSplit(chunker.text)
           n == Len(words)
           step == chunker.chunk_size - chunker.overlap
           starts == IF n = 0 THEN 0 ELSE (n - 1) \div step + 1
           last(k) == IF (k - 1) * step + chunker.chunk_size < n
                      THEN (k - 1) * step + chunker.chunk_size ELSE n
       IN /\ Len(ParagraphResult) >= 3
            => ~chunker.raised /\ chunker.chunks = ParagraphResult
          /\ Len(ParagraphResult) < 3 /\ chunker.chunk_size >= 1 /\ step >= 1
            => /\ ~chunker.raised
               /\ chunker.chunks =
                    [k \in 1..starts |->
                       StrJoin(SubSeq(words, (k - 1) * step + 1, last(k)),
                               <<" ">>)]
          /\ Len(ParagraphResult) < 3 /\ step <= 0 => chunker.chunks = <<>>

\* two paragraph chunks were discarded for two word windows, the last one
\* partial
C23_Witness ==
  /\ chunker.done /\ chunker.fn = "pdf_service"
  /\ chunker.text = <<"a", "\n", "\n", "a", " ", "a">>
  /\ chunker.chunk_size = 2 /\ chunker.overlap = 0
  /\ ParagraphResult = << <<"a">>, <<"a", " ", "a">> >>
  /\ chunker.chunks = << <<"a", " ", "a">>, <<"a">> >>

\* the seed of the chunk that follows a closed chunk of these words: its
\* trailing overlap \div 4 words, or its last 10 when it has no more than that
SeedWords(words, overlap) ==
  IF Len(words) > overlap \div 4
  THEN SubSeq(words, Len(words) - overlap \div 4 + 1, Len(words))
  ELSE SubSeq(words, IF Len(words) > 10 THEN Len(words) - 9 ELSE 1, Len(words))

\* every word list of chunkWords after the first starts with the seed of the
\* one before it, and what follows the seeds adds up to the word list rest
RECURSIVE Seeded(_, _, _, _)
Seeded(chunkWords, previous, rest, overlap) ==
  IF chunkWords = <<>> THEN rest = <<>>
  ELSE LET words == Head(chunkWords)
           seed == IF previous = <<>> THEN <<>>
                   ELSE SeedWords(previous, overlap)
           fresh == SubSeq(words, Len(seed) + 1, Len(words))
       IN /\ IsPrefix(seed, words)
          /\ IsPrefix(fresh, rest)
          /\ Seeded(Tail(chunkWords), words,
                    SubSeq(rest, Len(fresh) + 1, Len(rest)), overlap)

\* C24: with overlap > 0, every paragraph chunk of pdf_service.chunk_text
\* after the first starts with exactly the trailing overlap \div 4 words of
\* the chunk closed before it (its last 10 words when it has no more than
\* overlap \div 4), followed by the next words of the text.
C24_SeedIsQuarterOverlap ==
  /\ chunker.done /\ chunker.fn = "pdf_service" /\ ~chunker.raised
  /\ chunker.overlap > 0 /\ Len(ParagraphResult) >= 3
  => Seeded([i \in 1..Len(chunker.chunks) |-> StrSplit(chunker.chunks[i])],
            <<>>, StrSplit(chunker.text), chunker.overlap)

\* C25: when add_documents returns true, no store operation of the call
\* having failed, for texts that give at least one chunk, the index holds
\* chunks of its doc_id and each of them carries the fingerprint of texts.
C25_TrueMeansStored ==
  \A t \in Threads :
    /\ thr[t].pc = "add_done" /\ thr[t].ret /\ ~thr[t].failed
    /\ Expected(thr[t].texts, thr[t].doc).n > 0
    => /\ StoreGet(index, thr[t].doc) # {}
       /\ \A c \in StoreGet(index, thr[t].doc) :
            c.hash = ContentHash(thr[t].texts)

\* C26: the provider label, the backend object, the prompt template and the
\* QA chain of the agent always belong to one provider.
C26_ProviderConsistent ==
  /\ llm = llm_provider
  /\ prompt = PromptFor(llm_provider)
  /\ qa_chain = [llm |-> llm_provider, prompt |-> PromptFor(llm_provider)]

\* C27: switch_llm_provider with a name that is none of gemini, mistral,
\* ollama, auto, when building the backend and the chain does not raise,
\* returns true with ollama as the label, the backend, the template and the
\* chain of the agent, whatever is available.
C27_UnknownNameSelectsOllama ==
  \A t \in Threads :
    /\ thr[t].pc = "switch_done" /\ ~thr[t].failed
    /\ thr[t].req \notin Providers \cup {"auto"}
    => /\ thr[t].ret
       /\ llm_provider = "ollama" /\ llm = "ollama"
       /\ prompt = PromptFor("ollama")
       /\ qa_chain = [llm |-> "ollama", prompt |-> PromptFor("ollama")]

\* with gemini and mistral both available, a switch to "openai" returned
\* true and the agent runs on ollama
C27_Witness ==
  \E t \in Threads :
    /\ thr[t].pc = "switch_done" /\ thr[t].req = "openai" /\ thr[t].ret
    /\ gemini_available /\ mistral_available
    /\ llm_provider = "ollama" /\ llm = "ollama"

\* C28: every stored chat message carries the session_id of a stored
\* session, and the message_count of every session is the number of messages
\* stored with its session_id.
C28_MessagesBelongToSessions ==
  /\ \A i \in 1..Len(chat_messages) : HasSession(chat_messages[i].session_id)
  /\ \A r \in chat_sessions :
       r.message_count = Len(SessionMessages(r.session_id))

\* C29: when ask_question_with_session has answered and stored the bot
\* message, the model_used of that message is the llm_provider reported in
\* the result of the agent's ask_question, also when another caller switched
\* the provider after the route read the current provider.
C29_ModelUsedIsAnswering ==
  \A t \in Threads :
    (thr[t].pc = "sask_done" /\ thr[t].out.status = 200)
      => /\ chat_messages # <<>>
         /\ chat_messages[Len(chat_messages)].message_type = "bot"
         /\ chat_messages[Len(chat_messages)].model_used = thr[t].reported

\* C30: for chunk_size >= 1 and overlap >= 0, also with overlap >= chunk_size,
\* chunk_text raises no exception, and it returns at least one chunk when the
\* text has a character that is not whitespace.
C30_ReturnsNormally ==
  (chunker.done /\ chunker.chunk_size >= 1 /\ chunker.overlap >= 0)
    => /\ ~chunker.raised
       /\ StrStrip(chunker.text) # <<>> => chunker.chunks # <<>>

====
